---- MODULE Spec2Model ----
(***************************************************************************)
(* A model of the in-memory todo repository (src/src/repository.rs,        *)
(* src/src/models.rs).  The program state is the TodoRepo held by          *)
(* AppState.todo_repo: the items map and its three running counters.       *)
(* Every public method of TodoRepo is a pure operator on a repository      *)
(* value (same name as the method) and an action that applies it.          *)
(*                                                                         *)
(* Observation variables: `call` is the call whose response the caller is  *)
(* holding (its arguments and return value) and `pre` is the repository    *)
(* as it was when that call started.  A caller issues one call, looks at   *)
(* the response (Return) and only then issues the next one.                *)
(*                                                                         *)
(* The request handlers of src/src/lib.rs run over the same repository:    *)
(* AppState is todo_repo with selected_filter and toggle_action, shared    *)
(* behind one tokio RwLock (lock, queue).  Each request in flight has a    *)
(* position (req), the response it produced (resp) and a record of what    *)
(* it did to the lock (ghost).                                             *)
(***************************************************************************)
EXTENDS Integers, Sequences, FiniteSets

VARIABLES todo_repo, pre, call, created,
          selected_filter, toggle_action, lock, queue, req, resp, ghost

\* The variables only the request handlers use.
appvars == <<selected_filter, toggle_action, lock, queue, req, resp, ghost>>

vars == <<todo_repo, pre, call, created, appvars>>

\* ------------------------------------------------------------- bounds
\* Uuids are 1..MaxItems, so the store never holds more than MaxItems items.
MaxItems == 3
\* Timestamps SystemTime::now() can return are 0..MaxTime.
MaxTime == 1
\* The store behind the request handlers holds at most MaxAppItems todos.
MaxAppItems == 2

\* ------------------------------------------------------- input domains
Uuids == 1 .. MaxItems

Times == 0 .. MaxTime

Texts == {"", "Task A"}

TodoListFilter == {"Completed", "Active", "All"}

TodoToggleAction == {"Uncheck", "Check"}

\* Option<T>: None is the empty set, Some(x) the singleton {x}.
None == {}

Some(x) == {x}

OptionOf(S) == {None} \cup {Some(x) : x \in S}

Unwrap(o) == CHOOSE x \in o : TRUE

\* Result<T, TodoRepoError>: the payload is a sequence of todos (empty for ()).
Ok(v) == [tag |-> "Ok", val |-> v]

NotFound == [tag |-> "NotFound", val |-> <<>>]

\* ------------------------------------------------------------- helpers
Range(s) == {s[i] : i \in DOMAIN s}

\* All sequences that enumerate the finite set S without repetition.
RECURSIVE IterationOrders(_)
IterationOrders(S) ==
    IF S = {} THEN {<<>>}
    ELSE UNION {{<<x>> \o p : p \in IterationOrders(S \ {x})} : x \in S}

\* HashMap::insert
MapInsert(m, k, v) == [i \in DOMAIN m \cup {k} |-> IF i = k THEN v ELSE m[i]]

\* HashMap::remove / HashMap::retain: keep the keys in K
MapRestrict(m, K) == [i \in DOMAIN m \cap K |-> m[i]]

\* ------------------------------------------------------ models.rs: Todo
\* Todo::new, with the clock reading and the generated uuid made explicit.
TodoNew(text, now, id) ==
    [is_completed |-> FALSE, text |-> text, created_at |-> now, id |-> id]

\* TodoRepo::default()
TodoRepoDefault ==
    [num_completed_items |-> 0,
     num_active_items |-> 0,
     num_all_items |-> 0,
     items |-> [i \in {} |-> 0]]

\* --------------------------------------------- repository.rs: TodoRepo
\* TodoRepo::get
get(repo, id) ==
    IF id \in DOMAIN repo.items THEN Ok(<<repo.items[id]>>) ELSE NotFound

\* The closure passed to filter() in TodoRepo::list.
FilterMatches(filter, t) ==
    CASE filter = "All" -> TRUE
      [] filter = "Completed" -> t.is_completed
      [] filter = "Active" -> ~t.is_completed

\* Mutant of ListCmpLe: the comparator with its operands swapped (ascending).
ListCmpLe_ascending(a, b) == a.created_at <= b.created_at

\* The comparator of sort_by in TodoRepo::list: b.created_at.cmp(&a.created_at)
\* is Less or Equal, i.e. a may stay before b.
ListCmpLe(a, b) == b.created_at <= a.created_at

\* Insert x into the sorted sequence s after every element it does not
\* strictly precede (stable insertion).
RECURSIVE SortedInsert(_, _)
SortedInsert(s, x) ==
    IF s = <<>> THEN <<x>>
    ELSE IF ListCmpLe(Head(s), x) THEN <<Head(s)>> \o SortedInsert(Tail(s), x)
    ELSE <<x>> \o s

\* slice::sort_by: a stable sort under the comparator.
RECURSIVE SortBy(_)
SortBy(s) ==
    IF s = <<>> THEN <<>>
    ELSE SortedInsert(SortBy(SubSeq(s, 1, Len(s) - 1)), s[Len(s)])

\* HashMap::values(): the map's values in an arbitrary iteration order.
Values(m) == {[i \in DOMAIN p |-> m[p[i]]] : p \in IterationOrders(DOMAIN m)}

ListOf(vals, filter) ==
    LET Keep(t) == FilterMatches(filter, t)
    IN SortBy(SelectSeq(vals, Keep))

\* TodoRepo::list: the set of vectors it can return (one per iteration order).
list(repo, filter) == {ListOf(vals, filter) : vals \in Values(repo.items)}

\* Mutant of create: the increment of num_all_items is forgotten.
create_without_all(repo, todo) ==
    [repo |-> [repo EXCEPT
                 !.items = MapInsert(repo.items, todo.id, todo),
                 !.num_active_items = @ + 1],
     ret |-> Ok(<<todo>>)]

\* Mutant of create: the todo is counted and returned but never inserted.
create_without_insert(repo, todo) ==
    [repo |-> [repo EXCEPT
                 !.num_active_items = @ + 1,
                 !.num_all_items = @ + 1],
     ret |-> Ok(<<todo>>)]

\* TodoRepo::create, with the todo built by Todo::new(text).
create(repo, todo) ==
    [repo |-> [repo EXCEPT
                 !.items = MapInsert(repo.items, todo.id, todo),
                 !.num_active_items = @ + 1,
                 !.num_all_items = @ + 1],
     ret |-> Ok(<<todo>>)]

\* Mutant of delete: num_all_items is decremented before the lookup.
delete_counts_first(repo, id) ==
    LET counted == [repo EXCEPT !.num_all_items = @ - 1]
    IN IF id \notin DOMAIN repo.items
       THEN [repo |-> counted, ret |-> NotFound]
       ELSE LET old_todo == repo.items[id]
                removed == [counted EXCEPT
                              !.items = MapRestrict(repo.items, DOMAIN repo.items \ {id})]
            IN [repo |-> IF old_todo.is_completed
                         THEN [removed EXCEPT !.num_completed_items = @ - 1]
                         ELSE [removed EXCEPT !.num_active_items = @ - 1],
                ret |-> Ok(<<>>)]

\* Mutant of delete: the removed todo's flag is ignored.
delete_always_active(repo, id) ==
    IF id \notin DOMAIN repo.items
    THEN [repo |-> repo, ret |-> NotFound]
    ELSE [repo |-> [repo EXCEPT
                      !.items = MapRestrict(repo.items, DOMAIN repo.items \ {id}),
                      !.num_all_items = @ - 1,
                      !.num_active_items = @ - 1],
          ret |-> Ok(<<>>)]

\* TodoRepo::delete
delete(repo, id) ==
    IF id \notin DOMAIN repo.items
    THEN [repo |-> repo, ret |-> NotFound]
    ELSE LET old_todo == repo.items[id]
             removed == [repo EXCEPT
                           !.items = MapRestrict(repo.items, DOMAIN repo.items \ {id}),
                           !.num_all_items = @ - 1]
         IN [repo |-> IF old_todo.is_completed
                      THEN [removed EXCEPT !.num_completed_items = @ - 1]
                      ELSE [removed EXCEPT !.num_active_items = @ - 1],
             ret |-> Ok(<<>>)]

\* Mutant of update: the counters are adjusted whenever is_completed is
\* supplied, without the test `todo.is_completed != completed`.
update_unconditional(repo, id, text, is_completed) ==
    IF id \notin DOMAIN repo.items
    THEN [repo |-> repo, ret |-> NotFound]
    ELSE LET r1 == IF is_completed = None THEN repo
                   ELSE IF Unwrap(is_completed)
                   THEN [repo EXCEPT
                           !.items[id].is_completed = TRUE,
                           !.num_completed_items = @ + 1,
                           !.num_active_items = @ - 1]
                   ELSE [repo EXCEPT
                           !.items[id].is_completed = FALSE,
                           !.num_completed_items = @ - 1,
                           !.num_active_items = @ + 1]
             r2 == IF text # None
                   THEN [r1 EXCEPT !.items[id].text = Unwrap(text)]
                   ELSE r1
         IN [repo |-> r2, ret |-> Ok(<<r2.items[id]>>)]

\* Mutant of update: the todo is cloned for the return value before it is
\* mutated.
update_stale_return(repo, id, text, is_completed) ==
    IF id \notin DOMAIN repo.items
    THEN [repo |-> repo, ret |-> NotFound]
    ELSE LET todo == repo.items[id]
             flip == is_completed # None /\ todo.is_completed # Unwrap(is_completed)
             r1 == IF ~flip THEN repo
                   ELSE IF Unwrap(is_completed)
                   THEN [repo EXCEPT
                           !.items[id].is_completed = TRUE,
                           !.num_completed_items = @ + 1,
                           !.num_active_items = @ - 1]
                   ELSE [repo EXCEPT
                           !.items[id].is_completed = FALSE,
                           !.num_completed_items = @ - 1,
                           !.num_active_items = @ + 1]
             r2 == IF text # None
                   THEN [r1 EXCEPT !.items[id].text = Unwrap(text)]
                   ELSE r1
         IN [repo |-> r2, ret |-> Ok(<<todo>>)]

\* Mutant of update: a supplied text replaces the stored todo by a new one
\* (same id, flag and text kept, created_at reset to the epoch).
update_recreates(repo, id, text, is_completed) ==
    IF id \notin DOMAIN repo.items
    THEN [repo |-> repo, ret |-> NotFound]
    ELSE LET todo == repo.items[id]
             flip == is_completed # None /\ todo.is_completed # Unwrap(is_completed)
             r1 == IF ~flip THEN repo
                   ELSE IF Unwrap(is_completed)
                   THEN [repo EXCEPT
                           !.items[id].is_completed = TRUE,
                           !.num_completed_items = @ + 1,
                           !.num_active_items = @ - 1]
                   ELSE [repo EXCEPT
                           !.items[id].is_completed = FALSE,
                           !.num_completed_items = @ - 1,
                           !.num_active_items = @ + 1]
             r2 == IF text # None
                   THEN [r1 EXCEPT !.items[id].text = Unwrap(text),
                                   !.items[id].created_at = 0]
                   ELSE r1
         IN [repo |-> r2, ret |-> Ok(<<r2.items[id]>>)]

\* Mutant of update: an empty text is treated as no text.
update_skips_empty_text(repo, id, text, is_completed) ==
    IF id \notin DOMAIN repo.items
    THEN [repo |-> repo, ret |-> NotFound]
    ELSE LET todo == repo.items[id]
             flip == is_completed # None /\ todo.is_completed # Unwrap(is_completed)
             r1 == IF ~flip THEN repo
                   ELSE IF Unwrap(is_completed)
                   THEN [repo EXCEPT
                           !.items[id].is_completed = TRUE,
                           !.num_completed_items = @ + 1,
                           !.num_active_items = @ - 1]
                   ELSE [repo EXCEPT
                           !.items[id].is_completed = FALSE,
                           !.num_completed_items = @ - 1,
                           !.num_active_items = @ + 1]
             r2 == IF text # None /\ text # Some("")
                   THEN [r1 EXCEPT !.items[id].text = Unwrap(text)]
                   ELSE r1
         IN [repo |-> r2, ret |-> Ok(<<r2.items[id]>>)]

\* TodoRepo::update
update(repo, id, text, is_completed) ==
    IF id \notin DOMAIN repo.items
    THEN [repo |-> repo, ret |-> NotFound]
    ELSE LET todo == repo.items[id]
             flip == is_completed # None /\ todo.is_completed # Unwrap(is_completed)
             r1 == IF ~flip THEN repo
                   ELSE IF Unwrap(is_completed)
                   THEN [repo EXCEPT
                           !.items[id].is_completed = TRUE,
                           !.num_completed_items = @ + 1,
                           !.num_active_items = @ - 1]
                   ELSE [repo EXCEPT
                           !.items[id].is_completed = FALSE,
                           !.num_completed_items = @ - 1,
                           !.num_active_items = @ + 1]
             r2 == IF text # None
                   THEN [r1 EXCEPT !.items[id].text = Unwrap(text)]
                   ELSE r1
         IN [repo |-> r2, ret |-> Ok(<<r2.items[id]>>)]

\* Mutant of delete_completed: num_completed_items is reset before it is
\* subtracted from num_all_items.
delete_completed_reset_first(repo) ==
    [repo |-> [repo EXCEPT
                 !.items = MapRestrict(repo.items,
                              {i \in DOMAIN repo.items : ~repo.items[i].is_completed}),
                 !.num_completed_items = 0],
     ret |-> Ok(<<>>)]

\* TodoRepo::delete_completed
delete_completed(repo) ==
    [repo |-> [repo EXCEPT
                 !.items = MapRestrict(repo.items,
                              {i \in DOMAIN repo.items : ~repo.items[i].is_completed}),
                 !.num_all_items = @ - repo.num_completed_items,
                 !.num_completed_items = 0],
     ret |-> Ok(<<>>)]

\* Mutant of toggle_completed: every todo's own flag is inverted instead of
\* being overwritten.
toggle_completed_each(repo, action) ==
    LET counted == IF action = "Check"
                   THEN [repo EXCEPT
                           !.num_active_items = 0,
                           !.num_completed_items = repo.num_all_items]
                   ELSE [repo EXCEPT
                           !.num_completed_items = 0,
                           !.num_active_items = repo.num_all_items]
    IN [repo |-> [counted EXCEPT
                    !.items = [i \in DOMAIN repo.items |->
                                 [repo.items[i] EXCEPT !.is_completed = ~@]]],
        ret |-> Ok(<<>>)]

\* TodoRepo::toggle_completed
toggle_completed(repo, action) ==
    LET counted == IF action = "Check"
                   THEN [repo EXCEPT
                           !.num_active_items = 0,
                           !.num_completed_items = repo.num_all_items]
                   ELSE [repo EXCEPT
                           !.num_completed_items = 0,
                           !.num_active_items = repo.num_all_items]
        is_completed == (action = "Check")
    IN [repo |-> [counted EXCEPT
                    !.items = [i \in DOMAIN repo.items |->
                                 [repo.items[i] EXCEPT !.is_completed = is_completed]]],
        ret |-> Ok(<<>>)]

\* ------------------------------------------------------ lib.rs: AppState
\* AppState::default()
AppStateDefault ==
    [selected_filter |-> "All", toggle_action |-> "Check", todo_repo |-> TodoRepoDefault]

\* The AppError::TodoRepo(NotFound) response (404).
NotFoundResponse == [status |-> "NotFound"]

\* The counters and flags every listing, toggle, delete, update and create
\* response carries, read from `state`; is_disabled_delete is passed in
\* because delete_completed_todos sets it to the literal true.
CountersResponse(state, is_disabled_delete) ==
    [status |-> "Ok",
     num_completed_items |-> state.todo_repo.num_completed_items,
     num_active_items |-> state.todo_repo.num_active_items,
     num_all_items |-> state.todo_repo.num_all_items,
     is_disabled_delete |-> is_disabled_delete,
     is_disabled_toggle |-> (state.todo_repo.num_all_items = 0),
     action |-> state.toggle_action]

\* r with the field `items` (a Vec<Todo>) or `item` (an Option<Todo>) added.
WithItems(r, items) == [f \in DOMAIN r \cup {"items"} |-> IF f = "items" THEN items ELSE r[f]]

WithItem(r, item) == [f \in DOMAIN r \cup {"item"} |-> IF f = "item" THEN item ELSE r[f]]

\* list_todos, first statement: selected_filter is set under a write guard
\* that is dropped at the end of the statement.
list_todos_write(state, filter) == [state EXCEPT !.selected_filter = filter]

\* list_todos, the rest: the responses it can build under the read guard.
list_todos_read(state, filter) ==
    {WithItems(CountersResponse(state, state.todo_repo.num_completed_items = 0), items) :
        items \in list(state.todo_repo, filter)}

\* Mutant of toggle_completed_todos: toggle_action is inverted from its own
\* value instead of being set from the requested action.
toggle_completed_todos_inverts(state, action) ==
    LET s1 == [state EXCEPT !.toggle_action = IF @ = "Uncheck" THEN "Check" ELSE "Uncheck"]
        s2 == [s1 EXCEPT !.todo_repo = toggle_completed(s1.todo_repo, action).repo]
    IN {[state |-> s2,
         resp |-> WithItems(CountersResponse(s2, s2.todo_repo.num_completed_items = 0),
                            items)] :
           items \in list(s2.todo_repo, s2.selected_filter)}

\* toggle_completed_todos: the outcomes (new state, response) it can have.
toggle_completed_todos(state, action) ==
    LET s1 == [state EXCEPT !.toggle_action =
                   IF action = "Uncheck" THEN "Check" ELSE "Uncheck"]
        s2 == [s1 EXCEPT !.todo_repo = toggle_completed(s1.todo_repo, action).repo]
    IN {[state |-> s2,
         resp |-> WithItems(CountersResponse(s2, s2.todo_repo.num_completed_items = 0),
                            items)] :
           items \in list(s2.todo_repo, s2.selected_filter)}

\* delete_completed_todos
delete_completed_todos(state) ==
    LET s1 == [state EXCEPT !.todo_repo = delete_completed(state.todo_repo).repo,
                            !.toggle_action = "Check"]
    IN {[state |-> s1, resp |-> WithItems(CountersResponse(s1, TRUE), items)] :
           items \in list(s1.todo_repo, s1.selected_filter)}

\* edit_todo
edit_todo(state, id) ==
    LET r == get(state.todo_repo, id)
    IN IF r = NotFound
       THEN {[state |-> state, resp |-> NotFoundResponse]}
       ELSE {[state |-> state, resp |-> [status |-> "Ok", item |-> r.val[1]]]}

\* Mutant of update_todo: the updated item is returned whatever the
\* selected filter.
update_todo_ignores_filter(state, id, form) ==
    LET r == update(state.todo_repo, id, form.text, form.is_completed)
    IN IF r.ret = NotFound
       THEN {[state |-> state, resp |-> NotFoundResponse]}
       ELSE LET item == r.ret.val[1]
                s1 == [state EXCEPT
                         !.todo_repo = r.repo,
                         !.toggle_action =
                            IF r.repo.num_completed_items = r.repo.num_all_items
                            THEN "Uncheck" ELSE "Check"]
            IN {[state |-> s1,
                 resp |-> WithItem(CountersResponse(s1, s1.todo_repo.num_completed_items = 0),
                                   Some(item))]}

\* update_todo; form is the UpdateTodoForm.
update_todo(state, id, form) ==
    LET r == update(state.todo_repo, id, form.text, form.is_completed)
    IN IF r.ret = NotFound
       THEN {[state |-> state, resp |-> NotFoundResponse]}
       ELSE LET item == r.ret.val[1]
                s1 == [state EXCEPT
                         !.todo_repo = r.repo,
                         !.toggle_action =
                            IF r.repo.num_completed_items = r.repo.num_all_items
                            THEN "Uncheck" ELSE "Check"]
                shown == CASE s1.selected_filter = "Active" /\ item.is_completed -> None
                           [] s1.selected_filter = "Active" /\ ~item.is_completed -> Some(item)
                           [] s1.selected_filter = "All" -> Some(item)
                           [] s1.selected_filter = "Completed" /\ item.is_completed -> Some(item)
                           [] s1.selected_filter = "Completed" /\ ~item.is_completed -> None
            IN {[state |-> s1,
                 resp |-> WithItem(CountersResponse(s1, s1.todo_repo.num_completed_items = 0),
                                   shown)]}

\* Mutant of delete_todo: the flags are computed before the deletion.
delete_todo_stale_flags(state, id) ==
    LET r == delete(state.todo_repo, id)
    IN IF r.ret = NotFound
       THEN {[state |-> state, resp |-> NotFoundResponse]}
       ELSE LET s1 == [state EXCEPT
                         !.todo_repo = r.repo,
                         !.toggle_action =
                            IF r.repo.num_all_items = 0 THEN "Check" ELSE "Uncheck"]
            IN {[state |-> s1,
                 resp |-> [CountersResponse(s1, state.todo_repo.num_completed_items = 0)
                             EXCEPT !.is_disabled_toggle =
                                        (state.todo_repo.num_all_items = 0)]]}

\* delete_todo
delete_todo(state, id) ==
    LET r == delete(state.todo_repo, id)
    IN IF r.ret = NotFound
       THEN {[state |-> state, resp |-> NotFoundResponse]}
       ELSE LET s1 == [state EXCEPT
                         !.todo_repo = r.repo,
                         !.toggle_action =
                            IF r.repo.num_all_items = 0 THEN "Check" ELSE "Uncheck"]
            IN {[state |-> s1,
                 resp |-> CountersResponse(s1, s1.todo_repo.num_completed_items = 0)]}

\* create_todo; todo is the Todo::new(text) built inside TodoRepo::create.
create_todo(state, todo) ==
    LET r == create(state.todo_repo, todo)
        item == IF state.selected_filter = "Completed" THEN None ELSE Some(r.ret.val[1])
        s1 == [state EXCEPT !.todo_repo = r.repo, !.toggle_action = "Check"]
    IN {[state |-> s1,
         resp |-> WithItem(CountersResponse(s1, s1.todo_repo.num_completed_items = 0),
                           item)]}

\* ------------------------------------ lib.rs: SharedState = Arc<RwLock<_>>
\* The requests that can be in flight at once.
Reqs == {"r1", "r2"}

Handlers ==
    {"list_todos", "toggle_completed_todos", "delete_completed_todos", "edit_todo",
     "update_todo", "delete_todo", "create_todo"}

\* tokio::sync::RwLock: at most one write guard, or any number of read guards.
Unlocked == [writer |-> {}, readers |-> {}]

CanAcquire(l, mode) ==
    IF mode = "write" THEN l.writer = {} /\ l.readers = {} ELSE l.writer = {}

AcquireGuard(l, p, mode) ==
    IF mode = "write" THEN [l EXCEPT !.writer = {p}] ELSE [l EXCEPT !.readers = @ \cup {p}]

\* Mutant of DropGuard: the guard is leaked.
DropGuard_leaked(l, p) == l

\* A guard of request p goes out of scope (end of statement, return, or `?`).
DropGuard(l, p) == [l EXCEPT !.writer = @ \ {p}, !.readers = @ \ {p}]

NoRequest == [handler |-> "none", pc |-> "idle", filter |-> None]

NoResponse == [status |-> "none"]

\* What a request did so far: the guards it acquired, the counters its own
\* mutation left, toggle_action as its body found it, the action a toggle
\* request asked for, and the id of the todo a create or update request
\* created or asked to update.
NoGhost == [acquired |-> <<>>, own |-> None, before |-> None, action |-> None, id |-> None]

\* ------------------------------------------------------------- actions
NoCall == [op |-> "none"]

Idle == call.op = "none"

Init ==
    /\ todo_repo = TodoRepoDefault
    /\ pre = TodoRepoDefault
    /\ call = NoCall
    /\ created = <<>>
    /\ selected_filter = AppStateDefault.selected_filter
    /\ toggle_action = AppStateDefault.toggle_action
    /\ lock = Unlocked
    /\ queue = <<>>
    /\ req = [p \in Reqs |-> NoRequest]
    /\ resp = [p \in Reqs |-> NoResponse]
    /\ ghost = [p \in Reqs |-> NoGhost]

Get ==
    /\ Idle
    /\ \E id \in Uuids :
         call' = [op |-> "get", id |-> id, ret |-> get(todo_repo, id)]
    /\ pre' = todo_repo
    /\ UNCHANGED <<todo_repo, created, appvars>>

List ==
    /\ Idle
    /\ \E filter \in TodoListFilter :
         \E todos \in list(todo_repo, filter) :
            call' = [op |-> "list", filter |-> filter, ret |-> Ok(todos)]
    /\ pre' = todo_repo
    /\ UNCHANGED <<todo_repo, created, appvars>>

\* One create call: the clock reading and the fresh uuid are inputs.
CreateCall(text, now, id) ==
    LET r == create(todo_repo, TodoNew(text, now, id))
    IN /\ Idle
       /\ id \notin DOMAIN todo_repo.items
       /\ todo_repo' = r.repo
       /\ call' = [op |-> "create", text |-> text, ret |-> r.ret]
       /\ pre' = todo_repo
       /\ UNCHANGED appvars

Create ==
    /\ \E text \in Texts, now \in Times, id \in Uuids : CreateCall(text, now, id)
    /\ UNCHANGED created

Delete ==
    /\ Idle
    /\ \E id \in Uuids :
         LET r == delete(todo_repo, id)
         IN /\ todo_repo' = r.repo
            /\ call' = [op |-> "delete", id |-> id, ret |-> r.ret]
    /\ pre' = todo_repo
    /\ UNCHANGED <<created, appvars>>

Update ==
    /\ Idle
    /\ \E id \in Uuids, text \in OptionOf(Texts), is_completed \in OptionOf(BOOLEAN) :
         LET r == update(todo_repo, id, text, is_completed)
         IN /\ todo_repo' = r.repo
            /\ call' = [op |-> "update", id |-> id, text |-> text,
                        is_completed |-> is_completed, ret |-> r.ret]
    /\ pre' = todo_repo
    /\ UNCHANGED <<created, appvars>>

DeleteCompleted ==
    /\ Idle
    /\ LET r == delete_completed(todo_repo)
       IN /\ todo_repo' = r.repo
          /\ call' = [op |-> "delete_completed", ret |-> r.ret]
    /\ pre' = todo_repo
    /\ UNCHANGED <<created, appvars>>

ToggleCompleted ==
    /\ Idle
    /\ \E action \in TodoToggleAction :
         LET r == toggle_completed(todo_repo, action)
         IN /\ todo_repo' = r.repo
            /\ call' = [op |-> "toggle_completed", action |-> action, ret |-> r.ret]
    /\ pre' = todo_repo
    /\ UNCHANGED <<created, appvars>>

\* The caller is done with the response.
Return ==
    /\ ~Idle
    /\ call' = NoCall
    /\ pre' = todo_repo
    /\ UNCHANGED <<todo_repo, created, appvars>>

Next ==
    \/ Get
    \/ List
    \/ Create
    \/ Delete
    \/ Update
    \/ DeleteCompleted
    \/ ToggleCompleted
    \/ Return

Spec == Init /\ [][Next]_vars

\* Creates only, on the initially empty store: `created` records the todos
\* in the order the create calls were made.
CreateInOrder ==
    \E text \in Texts, now \in Times, id \in Uuids :
       /\ CreateCall(text, now, id)
       /\ created' = Append(created, TodoNew(text, now, id))

NextCreates ==
    \/ CreateInOrder
    \/ List
    \/ Return

SpecCreates == Init /\ [][NextCreates]_vars

\* --------------------------------------------- lib.rs: request handlers
\* Inputs of the requests: path ids, form texts, clock readings.  No handler
\* reads a text or a timestamp, so one text is submitted and all requests
\* fall within one tick of the clock (list then returns the todos in any
\* order).
AppUuids == 1 .. MaxAppItems

AppTexts == {"Task A"}

AppTimes == {0}

AppNow ==
    [selected_filter |-> selected_filter,
     toggle_action |-> toggle_action,
     todo_repo |-> todo_repo]

SetApp(state) ==
    /\ selected_filter' = state.selected_filter
    /\ toggle_action' = state.toggle_action
    /\ todo_repo' = state.todo_repo

CountersOf(repo) ==
    [num_completed_items |-> repo.num_completed_items,
     num_active_items |-> repo.num_active_items,
     num_all_items |-> repo.num_all_items]

\* The guard a request awaits: edit_todo and the second await of list_todos
\* call read(), everything else write().
LockMode(r) ==
    IF r.handler = "edit_todo" \/ r.pc \in {"wait2", "locked2"} THEN "read" ELSE "write"

\* A response is looked at in the state it was built in: it has gone out by
\* the time any request takes its next step.  Sent(f, blank) is the
\* per-request record f with the entries of the answered requests blanked.
Sent(f, blank) == [q \in Reqs |-> IF req[q].pc = "done" THEN blank ELSE f[q]]

InFlight(h) == {p \in Reqs : req[p].handler = h /\ req[p].pc # "done"}

\* A request arrives and its handler awaits its first guard.  create_todo is
\* admitted only while the store has room for its todo (the model's bound).
Start(p) ==
    /\ req[p].pc \in {"idle", "done"}
    /\ \E h \in Handlers :
         /\ h = "create_todo"
              => Cardinality(DOMAIN todo_repo.items) + Cardinality(InFlight(h))
                   < Cardinality(AppUuids)
         /\ req' = [Sent(req, NoRequest) EXCEPT
                       ![p] = [handler |-> h, pc |-> "wait", filter |-> None]]
    /\ queue' = Append(queue, p)
    /\ resp' = Sent(resp, NoResponse)
    /\ ghost' = Sent(ghost, NoGhost)
    /\ UNCHANGED <<todo_repo, pre, call, created, selected_filter, toggle_action, lock>>

\* The RwLock grants guards in the order they were asked for.
Acquire(p) ==
    /\ req[p].pc \in {"wait", "wait2"}
    /\ queue # <<>>
    /\ Head(queue) = p
    /\ CanAcquire(lock, LockMode(req[p]))
    /\ lock' = AcquireGuard(lock, p, LockMode(req[p]))
    /\ queue' = Tail(queue)
    /\ req' = [Sent(req, NoRequest) EXCEPT
                  ![p].pc = IF @ = "wait" THEN "locked" ELSE "locked2"]
    /\ resp' = Sent(resp, NoResponse)
    /\ ghost' = [Sent(ghost, NoGhost) EXCEPT ![p].acquired = Append(@, LockMode(req[p]))]
    /\ UNCHANGED <<todo_repo, pre, call, created, selected_filter, toggle_action>>

\* The handler's body runs to its return under the guard it holds: the state
\* becomes o.state, the response o.resp, and the guard is dropped.
Respond(p, o, action, id) ==
    /\ SetApp(o.state)
    /\ resp' = [Sent(resp, NoResponse) EXCEPT ![p] = o.resp]
    /\ lock' = DropGuard(lock, p)
    /\ req' = [Sent(req, NoRequest) EXCEPT ![p].pc = "done"]
    /\ ghost' = [Sent(ghost, NoGhost) EXCEPT
                   ![p].own = IF @ = None THEN Some(CountersOf(o.state.todo_repo)) ELSE @,
                   ![p].before = Some(toggle_action),
                   ![p].action = action,
                   ![p].id = id]
    /\ UNCHANGED <<pre, call, created, queue>>

Holds(p, h) == req[p].handler = h /\ req[p].pc = "locked"

\* list_todos up to its second await: the write guard is dropped and the
\* read guard asked for.
ListTodosWrite(p) ==
    /\ Holds(p, "list_todos")
    /\ \E filter \in TodoListFilter :
         /\ SetApp(list_todos_write(AppNow, filter))
         /\ req' = [Sent(req, NoRequest) EXCEPT
                       ![p].pc = "wait2", ![p].filter = Some(filter)]
    /\ lock' = DropGuard(lock, p)
    /\ queue' = Append(queue, p)
    /\ resp' = Sent(resp, NoResponse)
    /\ ghost' = [Sent(ghost, NoGhost) EXCEPT ![p].own = Some(CountersOf(todo_repo))]
    /\ UNCHANGED <<pre, call, created>>

ListTodosRead(p) ==
    /\ req[p].handler = "list_todos"
    /\ req[p].pc = "locked2"
    /\ \E r \in list_todos_read(AppNow, Unwrap(req[p].filter)) :
         Respond(p, [state |-> AppNow, resp |-> r], None, None)

ToggleCompletedTodos(p) ==
    /\ Holds(p, "toggle_completed_todos")
    /\ \E action \in TodoToggleAction :
         \E o \in toggle_completed_todos(AppNow, action) :
            Respond(p, o, Some(action), None)

DeleteCompletedTodos(p) ==
    /\ Holds(p, "delete_completed_todos")
    /\ \E o \in delete_completed_todos(AppNow) : Respond(p, o, None, None)

EditTodo(p) ==
    /\ Holds(p, "edit_todo")
    /\ \E id \in AppUuids :
         \E o \in edit_todo(AppNow, id) : Respond(p, o, None, None)

UpdateTodo(p) ==
    /\ Holds(p, "update_todo")
    /\ \E id \in AppUuids, text \in OptionOf(AppTexts), is_completed \in OptionOf(BOOLEAN) :
         \E o \in update_todo(AppNow, id, [text |-> text, is_completed |-> is_completed]) :
            Respond(p, o, None, Some(id))

DeleteTodo(p) ==
    /\ Holds(p, "delete_todo")
    /\ \E id \in AppUuids :
         \E o \in delete_todo(AppNow, id) : Respond(p, o, None, None)

CreateTodo(p) ==
    /\ Holds(p, "create_todo")
    /\ \E text \in AppTexts, now \in AppTimes, id \in AppUuids \ DOMAIN todo_repo.items :
         \E o \in create_todo(AppNow, TodoNew(text, now, id)) :
            Respond(p, o, None, Some(id))

\* The response has gone out and nothing else happens.
Finish(p) ==
    /\ req[p].pc = "done"
    /\ req' = [req EXCEPT ![p] = NoRequest]
    /\ resp' = [resp EXCEPT ![p] = NoResponse]
    /\ ghost' = [ghost EXCEPT ![p] = NoGhost]
    /\ UNCHANGED <<todo_repo, pre, call, created,
                   selected_filter, toggle_action, lock, queue>>

\* A step of p's handler between two awaits.
Body(p) ==
    \/ ListTodosWrite(p)
    \/ ListTodosRead(p)
    \/ ToggleCompletedTodos(p)
    \/ DeleteCompletedTodos(p)
    \/ EditTodo(p)
    \/ UpdateTodo(p)
    \/ DeleteTodo(p)
    \/ CreateTodo(p)

NextApp ==
    \E p \in Reqs :
       \/ Start(p)
       \/ Acquire(p)
       \/ Body(p)
       \/ Finish(p)

\* The lock is fair (first asked, first served: only the head of the queue
\* can be granted a guard), and the runtime keeps polling every handler that
\* can go on.
SpecApp ==
    /\ Init
    /\ [][NextApp]_vars
    /\ WF_vars(\E p \in Reqs : Acquire(p))
    /\ \A p \in Reqs : WF_vars(Body(p))


\* ------------------------------------------------- vocabulary of claims
ActiveIds(repo) == {i \in DOMAIN repo.items : ~repo.items[i].is_completed}

CompletedIds(repo) == {i \in DOMAIN repo.items : repo.items[i].is_completed}

SameCounters(a, b) ==
    /\ a.num_all_items = b.num_all_items
    /\ a.num_active_items = b.num_active_items
    /\ a.num_completed_items = b.num_completed_items

\* Every todo of repo a other than `id` is stored unchanged in repo b.
OthersUnchanged(a, b, id) ==
    \A i \in DOMAIN a.items \ {id} : i \in DOMAIN b.items /\ b.items[i] = a.items[i]

Reverse(s) == [i \in DOMAIN s |-> s[Len(s) + 1 - i]]

\* ------------------------------------------------------------------ C1
\* C1: in every reachable state num_all_items is the number of stored
\* items, num_active_items the number of stored items that are not
\* completed, num_completed_items the number that are, and active +
\* completed = all.
C1_CountersMatchItems ==
    /\ todo_repo.num_all_items = Cardinality(DOMAIN todo_repo.items)
    /\ todo_repo.num_active_items = Cardinality(ActiveIds(todo_repo))
    /\ todo_repo.num_completed_items = Cardinality(CompletedIds(todo_repo))
    /\ todo_repo.num_active_items + todo_repo.num_completed_items
         = todo_repo.num_all_items

\* A same-value update(completed = true) has just returned on a store that
\* holds active and completed todos.
C1_Witness ==
    /\ call.op = "update"
    /\ call.id \in DOMAIN pre.items
    /\ call.is_completed = Some(TRUE)
    /\ pre.items[call.id].is_completed
    /\ todo_repo.num_active_items > 0
    /\ todo_repo.num_completed_items > 1

\* ------------------------------------------------------------------ C2
\* C2: get, update (any optional arguments) and delete on an id that is
\* not a key of items return NotFound and leave the items map and the three
\* counters as they were.
C2_AbsentIdNotFound ==
    (call.op \in {"get", "update", "delete"} /\ call.id \notin DOMAIN pre.items)
        => (call.ret = NotFound /\ todo_repo = pre)

\* delete of an absent id has returned on a store with active and completed
\* todos.
C2_Witness ==
    /\ call.op = "delete"
    /\ call.id \notin DOMAIN pre.items
    /\ pre.num_active_items > 0
    /\ pre.num_completed_items > 0

\* ------------------------------------------------------------------ C3
\* C3: update(id, is_completed = v) on an existing task whose flag is
\* already v changes no counter and no flag; and when the flag differed,
\* repeating the same call right after the first leaves num_completed_items
\* moved by exactly 1 in total and num_active_items by exactly 1 the other
\* way, for v = true and for v = false.
C3_SameValueUpdateIsNoOp ==
    (call.op = "update" /\ call.id \in DOMAIN pre.items /\ call.is_completed # None)
        => LET v == Unwrap(call.is_completed)
               d == IF v THEN 1 ELSE -1
               again == update(todo_repo, call.id, call.text, call.is_completed).repo
           IN IF pre.items[call.id].is_completed = v
              THEN /\ SameCounters(todo_repo, pre)
                   /\ DOMAIN todo_repo.items = DOMAIN pre.items
                   /\ \A i \in DOMAIN pre.items :
                        todo_repo.items[i].is_completed = pre.items[i].is_completed
              ELSE /\ again.num_completed_items = pre.num_completed_items + d
                   /\ again.num_active_items = pre.num_active_items - d
                   /\ again.num_all_items = pre.num_all_items
                   /\ again.items[call.id].is_completed = v

\* update(completed = true) has returned on a task that was already completed,
\* with another, active task in the store.
C3_Witness ==
    /\ call.op = "update"
    /\ call.id \in DOMAIN pre.items
    /\ call.is_completed = Some(TRUE)
    /\ pre.items[call.id].is_completed
    /\ call.text = None
    /\ pre.num_active_items > 0

\* ------------------------------------------------------------------ C4
\* C4: update(id, is_completed = v) on an existing task whose flag differs
\* from v sets the flag to v, moves num_completed_items and
\* num_active_items by 1 in opposite directions, leaves num_all_items and
\* every other task unchanged and returns the task as stored afterwards.
C4_FlipMovesCountersByOne ==
    (/\ call.op = "update"
     /\ call.id \in DOMAIN pre.items
     /\ call.is_completed # None
     /\ pre.items[call.id].is_completed # Unwrap(call.is_completed))
        => LET v == Unwrap(call.is_completed)
               d == IF v THEN 1 ELSE -1
           IN /\ DOMAIN todo_repo.items = DOMAIN pre.items
              /\ todo_repo.items[call.id].is_completed = v
              /\ todo_repo.num_completed_items = pre.num_completed_items + d
              /\ todo_repo.num_active_items = pre.num_active_items - d
              /\ todo_repo.num_all_items = pre.num_all_items
              /\ OthersUnchanged(pre, todo_repo, call.id)
              /\ call.ret = Ok(<<todo_repo.items[call.id]>>)

\* update(text, completed = false) has flipped a completed task while another
\* task is stored.
C4_Witness ==
    /\ call.op = "update"
    /\ call.id \in DOMAIN pre.items
    /\ call.is_completed = Some(FALSE)
    /\ pre.items[call.id].is_completed
    /\ call.text # None
    /\ pre.num_all_items > 1

\* ------------------------------------------------------------------ C5
\* C5: create(text) adds exactly one new task with is_completed = false,
\* the given text and an id not previously present, raises
\* num_active_items and num_all_items by 1, leaves num_completed_items and
\* the tasks already stored unchanged, and returns the task (it has no
\* error result).
C5_CreateAddsOneActive ==
    call.op = "create"
        => /\ call.ret.tag = "Ok"
           /\ Len(call.ret.val) = 1
           /\ LET t == call.ret.val[1]
              IN /\ ~t.is_completed
                 /\ t.text = call.text
                 /\ t.id \notin DOMAIN pre.items
                 /\ DOMAIN todo_repo.items = DOMAIN pre.items \cup {t.id}
                 /\ todo_repo.items[t.id] = t
                 /\ OthersUnchanged(pre, todo_repo, t.id)
           /\ todo_repo.num_active_items = pre.num_active_items + 1
           /\ todo_repo.num_all_items = pre.num_all_items + 1
           /\ todo_repo.num_completed_items = pre.num_completed_items

\* create("") has returned on a store that held active and completed tasks.
C5_Witness ==
    /\ call.op = "create"
    /\ call.text = ""
    /\ pre.num_completed_items > 0
    /\ pre.num_active_items > 0

\* ------------------------------------------------------------------ C6
\* C6: delete(id) on an existing task removes exactly that task, lowers
\* num_all_items by 1, lowers num_completed_items by 1 if the task was
\* completed and num_active_items by 1 otherwise, and leaves the other
\* counter and all other tasks unchanged.
C6_DeleteRemovesOne ==
    (call.op = "delete" /\ call.id \in DOMAIN pre.items)
        => /\ call.ret = Ok(<<>>)
           /\ DOMAIN todo_repo.items = DOMAIN pre.items \ {call.id}
           /\ OthersUnchanged(pre, todo_repo, call.id)
           /\ todo_repo.num_all_items = pre.num_all_items - 1
           /\ IF pre.items[call.id].is_completed
              THEN /\ todo_repo.num_completed_items = pre.num_completed_items - 1
                   /\ todo_repo.num_active_items = pre.num_active_items
              ELSE /\ todo_repo.num_active_items = pre.num_active_items - 1
                   /\ todo_repo.num_completed_items = pre.num_completed_items

\* delete has removed a completed task from a store that also held an active
\* and another completed one.
C6_Witness ==
    /\ call.op = "delete"
    /\ call.id \in DOMAIN pre.items
    /\ pre.items[call.id].is_completed
    /\ todo_repo.num_active_items > 0
    /\ todo_repo.num_completed_items > 0

\* ------------------------------------------------------------------ C7
\* C7: delete_completed() removes exactly the completed tasks; afterwards
\* num_completed_items = 0, num_all_items is lower by the number removed,
\* num_active_items is unchanged and list(All) holds exactly the tasks that
\* were active before; with no completed task it changes nothing.
C7_DeleteCompletedRemovesCompleted ==
    call.op = "delete_completed"
        => /\ DOMAIN todo_repo.items = ActiveIds(pre)
           /\ \A i \in ActiveIds(pre) : todo_repo.items[i] = pre.items[i]
           /\ todo_repo.num_completed_items = 0
           /\ todo_repo.num_all_items
                = pre.num_all_items - Cardinality(CompletedIds(pre))
           /\ todo_repo.num_active_items = pre.num_active_items
           /\ \A todos \in list(todo_repo, "All") :
                /\ Range(todos) = {pre.items[i] : i \in ActiveIds(pre)}
                /\ Len(todos) = Cardinality(ActiveIds(pre))
           /\ (CompletedIds(pre) = {} => todo_repo = pre)

\* delete_completed has removed two completed tasks and kept an active one.
C7_Witness ==
    /\ call.op = "delete_completed"
    /\ Cardinality(CompletedIds(pre)) = 2
    /\ Cardinality(ActiveIds(pre)) = 1

\* ------------------------------------------------------------------ C8
\* C8: toggle_completed(Check) sets every flag to true and yields
\* num_completed_items = num_all_items, num_active_items = 0;
\* toggle_completed(Uncheck) sets every flag to false and yields
\* num_active_items = num_all_items, num_completed_items = 0; the set of
\* ids and num_all_items are unchanged.
C8_ToggleOverwritesAll ==
    call.op = "toggle_completed"
        => /\ DOMAIN todo_repo.items = DOMAIN pre.items
           /\ todo_repo.num_all_items = pre.num_all_items
           /\ \A i \in DOMAIN pre.items :
                todo_repo.items[i].is_completed = (call.action = "Check")
           /\ IF call.action = "Check"
              THEN /\ todo_repo.num_completed_items = todo_repo.num_all_items
                   /\ todo_repo.num_active_items = 0
              ELSE /\ todo_repo.num_active_items = todo_repo.num_all_items
                   /\ todo_repo.num_completed_items = 0

\* toggle_completed(Check) has run on a store with active and completed tasks.
C8_Witness ==
    /\ call.op = "toggle_completed"
    /\ call.action = "Check"
    /\ pre.num_active_items > 0
    /\ pre.num_completed_items > 0

\* ------------------------------------------------------------------ C9
\* C9: list(filter) returns each stored task that matches the filter
\* exactly once and no other task (All: every task; Active: not completed;
\* Completed: completed), with created_at non-increasing along the result;
\* when nothing matches the result is empty.
C9_ListFiltersAndSorts ==
    call.op = "list"
        => LET todos == call.ret.val
               matching ==
                   {pre.items[i] : i \in
                      CASE call.filter = "All" -> DOMAIN pre.items
                        [] call.filter = "Active" -> ActiveIds(pre)
                        [] call.filter = "Completed" -> CompletedIds(pre)}
           IN /\ call.ret.tag = "Ok"
              /\ Range(todos) = matching
              /\ Len(todos) = Cardinality(matching)
              /\ \A i, j \in DOMAIN todos :
                   i < j => todos[i].created_at >= todos[j].created_at
              /\ (matching = {} => todos = <<>>)

\* list(Active) has returned two tasks with different timestamps while a
\* completed task is stored too.
C9_Witness ==
    /\ call.op = "list"
    /\ call.filter = "Active"
    /\ Len(call.ret.val) = 2
    /\ call.ret.val[1].created_at > call.ret.val[2].created_at
    /\ pre.num_completed_items > 0

\* ----------------------------------------------------------------- C10
\* C10: after successive create calls on an initially empty store,
\* list(Active) and list(All) return the created tasks in exactly the
\* reverse of the order of the create calls, whatever timestamps the clock
\* returned.
C10_ListIsReverseCreationOrder ==
    (call.op = "list" /\ call.filter \in {"Active", "All"})
        => call.ret.val = Reverse(created)

\* ----------------------------------------------------------------- C11
\* C11: immediately after t = create(text), get(t.id) succeeds and returns
\* a task equal to t in id, text, is_completed and created_at.
C11_GetAfterCreate ==
    call.op = "create"
        => get(todo_repo, call.ret.val[1].id) = Ok(<<call.ret.val[1]>>)

\* create has returned a task with the latest timestamp on a store that
\* already held a completed task.
C11_Witness ==
    /\ call.op = "create"
    /\ call.ret.val[1].created_at = MaxTime
    /\ call.ret.val[1].text = "Task A"
    /\ pre.num_completed_items > 0

\* ----------------------------------------------------------------- C12
\* C12: while a task is stored, its id and its created_at never change
\* under any call, and toggle_completed never changes a task's text.
C12_IdAndCreatedAtImmutable ==
    /\ \A i \in DOMAIN todo_repo.items : todo_repo.items[i].id = i
    /\ \A i \in DOMAIN pre.items \cap DOMAIN todo_repo.items :
         /\ todo_repo.items[i].id = pre.items[i].id
         /\ todo_repo.items[i].created_at = pre.items[i].created_at
    /\ call.op = "toggle_completed"
         => \A i \in DOMAIN pre.items : todo_repo.items[i].text = pre.items[i].text

\* update has changed both the text and the flag of a task created at the
\* latest timestamp.
C12_Witness ==
    /\ call.op = "update"
    /\ call.id \in DOMAIN pre.items
    /\ pre.items[call.id].created_at = MaxTime
    /\ todo_repo.items[call.id].text # pre.items[call.id].text
    /\ todo_repo.items[call.id].is_completed # pre.items[call.id].is_completed

\* ----------------------------------------------------------------- C13
\* C13: update(id, None, None) on an existing id leaves the items map and
\* the counters unchanged and returns the stored task; with only a text
\* supplied, only that task's text changes, to the supplied value verbatim
\* (the empty string included), and its flag and the counters stay.
C13_UpdateNoneAndTextOnly ==
    (call.op = "update" /\ call.id \in DOMAIN pre.items /\ call.is_completed = None)
        => IF call.text = None
           THEN /\ todo_repo = pre
                /\ call.ret = Ok(<<pre.items[call.id]>>)
           ELSE /\ DOMAIN todo_repo.items = DOMAIN pre.items
                /\ todo_repo.items[call.id]
                     = [pre.items[call.id] EXCEPT !.text = Unwrap(call.text)]
                /\ OthersUnchanged(pre, todo_repo, call.id)
                /\ SameCounters(todo_repo, pre)

\* update(text = "") alone has emptied the text of a completed task.
C13_Witness ==
    /\ call.op = "update"
    /\ call.id \in DOMAIN pre.items
    /\ call.is_completed = None
    /\ call.text = Some("")
    /\ pre.items[call.id].text = "Task A"
    /\ pre.items[call.id].is_completed
    /\ pre.num_all_items > 1

\* ----------------------------------------------------------------- C19
\* C19: no counter subtraction in delete, update or delete_completed
\* underflows: each decrement is applied to a counter at least as large as
\* the amount subtracted, so no counter ever leaves the unsigned range.
C19_NoCounterUnderflow ==
    /\ todo_repo.num_all_items >= 0
    /\ todo_repo.num_active_items >= 0
    /\ todo_repo.num_completed_items >= 0
    /\ (call.op = "delete" /\ call.id \in DOMAIN pre.items)
         => /\ pre.num_all_items >= 1
            /\ IF pre.items[call.id].is_completed
               THEN pre.num_completed_items >= 1
               ELSE pre.num_active_items >= 1
    /\ (/\ call.op = "update"
        /\ call.id \in DOMAIN pre.items
        /\ call.is_completed # None
        /\ pre.items[call.id].is_completed # Unwrap(call.is_completed))
         => IF Unwrap(call.is_completed)
            THEN pre.num_active_items >= 1
            ELSE pre.num_completed_items >= 1
    /\ call.op = "delete_completed"
         => pre.num_all_items >= pre.num_completed_items

\* delete has removed the only completed task, taking num_completed_items
\* from 1 to 0.
C19_Witness ==
    /\ call.op = "delete"
    /\ call.id \in DOMAIN pre.items
    /\ pre.items[call.id].is_completed
    /\ pre.num_completed_items = 1
    /\ todo_repo.num_completed_items = 0
    /\ todo_repo.num_active_items > 0

\* ------------------------------------------------- vocabulary, handlers
WriteHandlers ==
    {"toggle_completed_todos", "delete_completed_todos", "update_todo", "delete_todo",
     "create_todo"}

ReadHandlers == {"edit_todo", "list_todos"}

\* The requests whose response has just been built.
Done(h) == {p \in Reqs : req[p].pc = "done" /\ req[p].handler = h}

Answered == {p \in Reqs : req[p].pc = "done" /\ resp[p].status = "Ok"}

Opposite(action) == IF action = "Uncheck" THEN "Check" ELSE "Uncheck"

\* ----------------------------------------------------------------- C14
\* C14: every handler acquires one guard for the whole call, a read guard
\* in edit_todo and list_todos and a write guard in the five mutating
\* handlers; no handler ever holds a second guard after dropping a first.
C14_OneGuardOfTheRightKind ==
    \A p \in Reqs :
       /\ Len(ghost[p].acquired) <= 1
       /\ req[p].handler \in ReadHandlers
            => \A i \in DOMAIN ghost[p].acquired : ghost[p].acquired[i] = "read"
       /\ req[p].handler \in WriteHandlers
            => \A i \in DOMAIN ghost[p].acquired : ghost[p].acquired[i] = "write"

\* ----------------------------------------------------------------- C15
\* C15 (safety half): the lock is held by exactly the requests that are
\* between an acquisition and the end of the statement or function it
\* guards; a request that has returned, with a response or with NotFound,
\* holds nothing.
GuardsMatchScopes ==
    /\ lock.writer = {p \in Reqs : req[p].pc = "locked" /\ LockMode(req[p]) = "write"}
    /\ lock.readers = {p \in Reqs : req[p].pc \in {"locked", "locked2"}
                                      /\ LockMode(req[p]) = "read"}

Started(p) == req[p].pc \in {"wait", "locked", "wait2", "locked2"}

\* C15: every handler drops every guard it acquired on every exit path, the
\* NotFound returns included, and so under a fair lock and a fair runtime no
\* request stays in flight for ever: every started request gets its
\* response (the first step that ends Started is the one that builds it).
C15_GuardsDroppedAndRequestsReturn ==
    /\ []GuardsMatchScopes
    /\ \A p \in Reqs : []<>(~Started(p))

\* update_todo has returned NotFound, the lock is free and another request
\* is waiting for it.
C15_Witness ==
    \E p \in Done("update_todo"), q \in Reqs :
       /\ resp[p] = NotFoundResponse
       /\ lock = Unlocked
       /\ req[q].pc = "wait"
       /\ LockMode(req[q]) = "write"

\* ----------------------------------------------------------------- C16
\* C16: the counters of every successful response are those of the one
\* store state that the handler's own mutation left, so that no response
\* shows the effect of a mutation that another request made after it.
C16_ResponseFromOwnState ==
    \A p \in Answered :
       "num_all_items" \in DOMAIN resp[p]
          => /\ ghost[p].own # None
             /\ SameCounters(resp[p], Unwrap(ghost[p].own))

\* ----------------------------------------------------------------- C17
\* C17 as stated: toggle_action after toggle_completed_todos is the opposite
\* of toggle_action before it, whatever action was requested.
C17_ToggleActionFlips ==
    \A p \in Done("toggle_completed_todos") :
       toggle_action # Unwrap(ghost[p].before)

\* C17, amended: toggle_action after toggle_completed_todos is the opposite
\* of the requested action, in the state and in the response; it therefore
\* flips exactly when the requested action is the one toggle_action held.
C17_ToggleActionOppositeOfRequest ==
    \A p \in Done("toggle_completed_todos") :
       /\ toggle_action = Opposite(Unwrap(ghost[p].action))
       /\ resp[p].action = toggle_action
       /\ (toggle_action # Unwrap(ghost[p].before))
             <=> (Unwrap(ghost[p].action) = Unwrap(ghost[p].before))

\* A toggle was requested with the action that toggle_action did not hold,
\* on a store with todos: toggle_action stays what it was.
C17_Witness ==
    \E p \in Done("toggle_completed_todos") :
       /\ Unwrap(ghost[p].action) # Unwrap(ghost[p].before)
       /\ toggle_action = Unwrap(ghost[p].before)
       /\ todo_repo.num_all_items > 0

\* ----------------------------------------------------------------- C18
\* C18: in every successful response that carries the flags,
\* is_disabled_delete says that the num_completed_items of that response is
\* 0 and is_disabled_toggle that its num_all_items is 0; this includes
\* delete_completed_todos, whose is_disabled_delete is the literal true.
C18_FlagsMatchCounters ==
    \A p \in Answered :
       "is_disabled_delete" \in DOMAIN resp[p]
          => /\ resp[p].is_disabled_delete = (resp[p].num_completed_items = 0)
             /\ resp[p].is_disabled_toggle = (resp[p].num_all_items = 0)

\* delete_completed_todos has answered for a store that keeps an active todo.
C18_Witness ==
    \E p \in Done("delete_completed_todos") :
       /\ resp[p].is_disabled_delete
       /\ ~resp[p].is_disabled_toggle
       /\ resp[p].num_active_items > 0

\* ----------------------------------------------------------------- C20
\* C20: whenever toggle_action is Uncheck the store holds at least one
\* completed todo.
C20_UncheckOnlyWithCompleted ==
    toggle_action = "Uncheck" => todo_repo.num_completed_items > 0

\* ----------------------------------------------------------------- C21
\* C21: a successful create_todo or update_todo response carries the
\* created or updated todo, as it is now stored, exactly when that todo
\* matches selected_filter (always under All, when not completed under
\* Active, when completed under Completed), and nothing otherwise; a
\* created todo is therefore left out exactly under Completed.
C21_ItemShownIffMatchesFilter ==
    \A p \in Answered :
       req[p].handler \in {"create_todo", "update_todo"}
          => /\ ghost[p].id # None
             /\ Unwrap(ghost[p].id) \in DOMAIN todo_repo.items
             /\ LET t == todo_repo.items[Unwrap(ghost[p].id)]
                IN /\ resp[p].item = IF FilterMatches(selected_filter, t)
                                     THEN Some(t) ELSE None
                   /\ req[p].handler = "create_todo"
                        => (resp[p].item = None <=> selected_filter = "Completed")

\* update_todo has completed a todo while the Active filter is selected and
\* answers without the item.
C21_Witness ==
    \E p \in Done("update_todo") :
       /\ resp[p].status = "Ok"
       /\ selected_filter = "Active"
       /\ todo_repo.items[Unwrap(ghost[p].id)].is_completed
       /\ resp[p].item = None

====
